---- MODULE Spec2Model ----
(***************************************************************************)
(* A model of src/src/fu-rom.c: the PCI option ROM decoder of fwupd.       *)
(*                                                                         *)
(* fu_rom_load_file is modelled as a state machine whose steps are the     *)
(* blocks of that function in program order: the read, the header chain    *)
(* walk (one step per loop iteration), the empty-list check, the vendor    *)
(* classification, the version search, the serial-number blanking, the     *)
(* digest loop (one step per header) and the final guid/version check.     *)
(* The static helpers are operators computed the way the C code computes   *)
(* them, on real byte values and with the real offsets and sizes.          *)
(*                                                                         *)
(* Memory.  The file's bytes are buffer[0..sz-1].  The C code reads them   *)
(* into a 4 MiB g_malloc block and copies each header with g_memdup, and   *)
(* several of its reads and writes are not bounded by the valid length.    *)
(* A byte read outside the valid bytes (past sz in the input block, past   *)
(* rom_len in a header copy) has no defined value: each run of the model   *)
(* picks it in Init, as the variable fill, and every such read yields it.  *)
(*                                                                         *)
(* Not modelled: the g_debug output (fu_rom_pci_print_header and the hex   *)
(* dumps, which change no state), and the SHA-1 function itself: the       *)
(* digest is represented by its input, the bytes fed to g_checksum_update. *)
(* The host is little-endian.                                              *)
(***************************************************************************)
EXTENDS Integers, Sequences, FiniteSets, TLC

VARIABLES
    file,          \* the bytes the input stream holds: a function 0..n-1 -> 0..255
    flags,         \* TRUE iff FU_ROM_LOAD_FLAG_BLANK_PPID is set
    fill,          \* the value a read of an uninitialised / foreign byte yields
    pc,            \* position in fu_rom_load_file
    buffer,        \* the bytes read so far (valid part of the g_malloc block)
    sz,            \* number of valid bytes in buffer
    hdr_sz,        \* guint hdr_sz
    jump,          \* guint32 jump
    hdrs,          \* priv->hdrs, a sequence of FuRomPciHeader records
    kind,          \* priv->kind
    version,       \* priv->version: <<>> is NULL, <<s>> is the string s
    vendor,        \* priv->vendor
    model,         \* priv->model
    checksum_wip,  \* every byte handed to g_checksum_update, in order
    sum_i,         \* loop index of the digest loop
    guid,          \* priv->guid set (as_utils_guid_from_string was called)
    error,         \* the GError message set, "" when none
    attempts,      \* history: the offsets hdr_sz + jump handed to the decoder
    failed_at,     \* history: the offset at which the decoder returned NULL, or -1
    fakes,         \* history: number of synthesized ("fake") headers appended
    hiread,        \* history: highest index of the input block the decoder read
    overrun        \* history: number of bytes blanking wrote past a header copy

vars == <<file, flags, fill, pc, buffer, sz, hdr_sz, jump, hdrs, kind, version,
          vendor, model, checksum_wip, sum_i, guid, error, attempts, failed_at,
          fakes, hiread, overrun>>

(***************************************************************************)
(* Program constants                                                       *)
(***************************************************************************)
BLOCK == 512
MIN_SZ == 1024

(***************************************************************************)
(* Bounds of the checked inputs                                            *)
(***************************************************************************)
MaxBlocks == 3
MaxRomBlocks == 3

(***************************************************************************)
(* Byte strings of the source, as ASCII codes                              *)
(***************************************************************************)
SIG_PCI == <<85, 170>>
SIG_NV == <<86, 78>>
STR_NVGI == <<78, 86, 71, 73>>
STR_PCIR == <<80, 67, 73, 82>>
STR_RGIS == <<82, 71, 73, 83>>
STR_NPDS == <<78, 80, 68, 83>>
STR_NPDE == <<78, 80, 68, 69>>
STR_K74 == <<75, 55, 52>>
STR_VBT == <<36, 86, 66, 84>>
STR_ATI == <<32, 55, 54, 49, 50, 57, 53, 53, 50, 48>>
STR_ZEROS == <<48, 48, 48, 48, 48, 48, 48, 48, 48, 48, 48>>
STR_ARC == <<0, 0, 65, 82, 67>>
STR_PPID == <<80, 80, 73, 68>>
STR_BIOS == <<66, 73, 79, 83, 58, 32>>
STR_VERSION_SP == <<86, 101, 114, 115, 105, 111, 110, 32>>
STR_VENSION == <<86, 101, 110, 115, 105, 111, 110, 58>>
STR_VERSION == <<86, 101, 114, 115, 105, 111, 110>>
STR_VBIOS_VER == <<86, 66, 73, 79, 83, 32, 86, 101, 114>>
STR_BUILD == <<66, 117, 105, 108, 100, 32, 78, 117, 109, 98, 101, 114, 58>>
STR_VBIOS_SP == <<86, 66, 73, 79, 83, 32>>
STR_VER0 == <<32, 86, 69, 82, 48>>
STR_VR == <<32, 86, 82>>

(***************************************************************************)
(* Memory                                                                  *)
(***************************************************************************)
Max(a, b) == IF a >= b THEN a ELSE b

\* buffer[i] of fu_rom_load_file: a valid byte below sz, else whatever the
\* g_malloc block holds there
Mem(i) == IF i < sz THEN buffer[i] ELSE fill

\* memcmp (buffer + off, str, Len(str)) == 0
MemEq(off, str) == \A k \in 1..Len(str) : Mem(off + k - 1) = str[k]

\* hdr->rom_data[i]: a byte of the private copy below rom_len, else whatever
\* follows the copy on the heap
HdrByte(hdr, i) == IF i < hdr.rom_len THEN hdr.rom_data[i] ELSE fill

\* memcmp (hdr->rom_data + off, str, Len(str)) == 0
HdrEq(hdr, off, str) == \A k \in 1..Len(str) : HdrByte(hdr, off + k - 1) = str[k]

\* g_new0 (FuRomPciHeader, 1)
ZeroHeader ==
    [rom_data |-> <<>>, rom_len |-> 0, rom_offset |-> 0, entry_point |-> 0,
     reserved |-> [k \in 1..18 |-> 0], cpi_ptr |-> 0, vendor_id |-> 0,
     device_id |-> 0, device_list_ptr |-> 0, data_len |-> 0, data_rev |-> 0,
     class_code |-> 0, image_len |-> 0, revision_level |-> 0, code_type |-> 0,
     last_image |-> 0, max_runtime_len |-> 0, config_header_ptr |-> 0,
     dmtf_clp_ptr |-> 0]

(***************************************************************************)
(* fu_rom_pci_parse_data: the header with the PCI data fields filled in,   *)
(* or unchanged where the C function returns FALSE                         *)
(***************************************************************************)
fu_rom_pci_parse_data(hdr) ==
    LET B(k) == HdrByte(hdr, hdr.cpi_ptr + k)
        Sig(str) == HdrEq(hdr, hdr.cpi_ptr, str)
    IN  IF hdr.cpi_ptr = 0 THEN hdr
        ELSE IF hdr.rom_len > 0 /\ hdr.cpi_ptr > hdr.rom_len THEN hdr
        ELSE IF hdr.cpi_ptr > hdr.rom_len THEN hdr
        ELSE IF ~Sig(STR_PCIR) /\ ~(Sig(STR_RGIS) \/ Sig(STR_NPDS) \/ Sig(STR_NPDE))
             THEN hdr
        ELSE [hdr EXCEPT
                !.vendor_id = B(5) * 256 + B(4),
                !.device_id = B(7) * 256 + B(6),
                !.device_list_ptr = B(9) * 256 + B(8),
                !.data_len = B(11) * 256 + B(10),
                !.data_rev = B(12),
                !.class_code = B(15) * 65536 + B(14) * 256 + B(13),
                !.image_len = (B(17) * 256 + B(16)) * BLOCK,
                !.revision_level = B(19) * 256 + B(18),
                !.code_type = B(20),
                !.last_image = B(21),
                !.max_runtime_len = (B(23) * 256 + B(22)) * BLOCK,
                !.config_header_ptr = B(25) * 256 + B(24),
                !.dmtf_clp_ptr = B(27) * 256 + B(26)]

(***************************************************************************)
(* fu_rom_pci_get_header (&buffer[off], rem): <<>> for NULL, else <<hdr>>  *)
(***************************************************************************)
SigOk(off) == MemEq(off, SIG_PCI) \/ MemEq(off, SIG_NV)

RomLen(off, rem) ==
    IF Mem(off + 2) * BLOCK = 0 THEN rem ELSE Mem(off + 2) * BLOCK

fu_rom_pci_get_header(off, rem) ==
    IF ~SigOk(off) THEN <<>>
    ELSE LET len == RomLen(off, rem)
         IN  <<fu_rom_pci_parse_data(
                 [ZeroHeader EXCEPT
                    !.rom_len = len,
                    !.rom_data = [i \in 0..(len - 1) |-> Mem(off + i)],
                    !.entry_point = Mem(off + 5) * 65536 + Mem(off + 4) * 256
                                    + Mem(off + 3),
                    !.reserved = [k \in 1..18 |-> Mem(off + 6 + k - 1)],
                    !.cpi_ptr = Mem(off + 25) * 256 + Mem(off + 24)])>>

(***************************************************************************)
(* fu_rom_pci_strstr: the index in rom_data of the match (the C function   *)
(* returns the pointer &rom_data[index]), or -1 for NULL; and the indices  *)
(* of rom_data the scan reads                                              *)
(***************************************************************************)
MinOf(S) == CHOOSE x \in S : \A y \in S : x <= y
MaxOf(S) == CHOOSE x \in S : \A y \in S : y <= x

\* the values of i at which the loop of lines 131-134 finds the needle
StrstrHits(hdr, needle) ==
    {i \in 0..(hdr.rom_len - hdr.data_len - Len(needle) - 1) :
        HdrEq(hdr, hdr.data_len + i, needle)}

\* a search without the data_len > rom_len test, which then scans the whole copy
StrstrUnguarded(hdr, needle) ==
    LET from == IF hdr.data_len > hdr.rom_len THEN 0 ELSE hdr.data_len
        hits == {i \in 0..(hdr.rom_len - from - Len(needle) - 1) :
                    HdrEq(hdr, from + i, needle)}
    IN  IF Len(needle) = 0 \/ hdr.rom_len = 0 \/ hits = {} THEN -1
        ELSE from + MinOf(hits)

fu_rom_pci_strstr(hdr, needle) ==
    IF Len(needle) = 0 THEN -1
    ELSE IF hdr.rom_len = 0 THEN -1
    ELSE IF hdr.data_len > hdr.rom_len THEN -1
    ELSE IF Len(needle) > hdr.rom_len - hdr.data_len THEN -1
    ELSE IF StrstrHits(hdr, needle) = {} THEN -1
    ELSE hdr.data_len + MinOf(StrstrHits(hdr, needle))

\* every memcmp of the loop reads needle_len bytes at haystack + i, for each i
\* up to the one that matches
StrstrReads(hdr, needle) ==
    IF Len(needle) = 0 \/ hdr.rom_len = 0 \/ hdr.data_len > hdr.rom_len
       \/ Len(needle) > hdr.rom_len - hdr.data_len
       \/ hdr.rom_len - hdr.data_len - Len(needle) = 0
    THEN {}
    ELSE LET last == IF StrstrHits(hdr, needle) = {}
                     THEN hdr.rom_len - hdr.data_len - Len(needle) - 1
                     ELSE MinOf(StrstrHits(hdr, needle))
         IN  hdr.data_len..(hdr.data_len + last + Len(needle) - 1)

(***************************************************************************)
(* fu_rom_pci_header_get_checksum: the guint8 sum of rom_data[0..rom_len). *)
(* The sum is taken by halves instead of left to right (addition modulo    *)
(* 256 is associative), which keeps the evaluation shallow.                *)
(***************************************************************************)
RECURSIVE SumBytes(_, _, _)
SumBytes(f, lo, hi) ==
    IF lo > hi THEN 0
    ELSE IF lo = hi THEN f[lo]
    ELSE (SumBytes(f, lo, (lo + hi) \div 2)
          + SumBytes(f, (lo + hi) \div 2 + 1, hi)) % 256

fu_rom_pci_header_get_checksum(hdr) == SumBytes(hdr.rom_data, 0, hdr.rom_len - 1) % 256

(***************************************************************************)
(* fu_rom_blank_serial_numbers (&rom_data[at], buffer_sz): the number of   *)
(* bytes it sets to zero, which is also its return value                   *)
(***************************************************************************)
IsBoundary(b) == b = 255 \/ b = 0 \/ b = 10 \/ b = 13

fu_rom_blank_serial_numbers(hdr, at, buffer_sz) ==
    LET stop == {i \in 0..(buffer_sz - 1) : IsBoundary(HdrByte(hdr, at + i))}
    IN  IF stop = {} THEN buffer_sz ELSE MinOf(stop)

(***************************************************************************)
(* fu_rom_find_and_blank_serial_numbers, lines 381-394, for one header:    *)
(* the header afterwards, and the number of bytes written past its copy    *)
(***************************************************************************)
\* the second argument of the call in line 387
BlankSize(hdr) == hdr.rom_len - hdr.data_len

\* rom_data after the call of line 387 (the bytes below rom_len)
Blanked(hdr) ==
    LET at == fu_rom_pci_strstr(hdr, STR_PPID)
        len == fu_rom_blank_serial_numbers(hdr, at, BlankSize(hdr))
    IN  [i \in 0..(hdr.rom_len - 1) |->
            IF at <= i /\ i < at + len THEN 0 ELSE hdr.rom_data[i]]

\* a checksum fix that adds the checksum instead of subtracting it
FixChecksumAdd(hdr) ==
    [hdr EXCEPT !.rom_data[hdr.rom_len - 1] =
        (hdr.rom_data[hdr.rom_len - 1]
         + fu_rom_pci_header_get_checksum(hdr)) % 256]

\* lines 391-392: chk = checksum; rom_data[rom_len - 1] -= chk (guint8)
FixChecksum(hdr) ==
    [hdr EXCEPT !.rom_data[hdr.rom_len - 1] =
        (hdr.rom_data[hdr.rom_len - 1] + 256
         - fu_rom_pci_header_get_checksum(hdr)) % 256]

BlankHeader(hdr) ==
    IF fu_rom_pci_strstr(hdr, STR_PPID) = -1 THEN hdr
    ELSE FixChecksum([hdr EXCEPT !.rom_data = Blanked(hdr)])

BlankOverrun(hdr) ==
    LET at == fu_rom_pci_strstr(hdr, STR_PPID)
    IN  IF at = -1 THEN 0
        ELSE Max(0, at + fu_rom_blank_serial_numbers(hdr, at, BlankSize(hdr))
                    - hdr.rom_len)

\* the whole function: nothing for a PCI or Intel image, else every header
fu_rom_find_and_blank_serial_numbers(k, hs) ==
    IF k = "pci" \/ k = "intel" THEN hs
    ELSE [i \in 1..Len(hs) |-> BlankHeader(hs[i])]

RECURSIVE SumOverrun(_, _)
SumOverrun(hs, n) ==
    IF n = 0 THEN 0 ELSE SumOverrun(hs, n - 1) + BlankOverrun(hs[n])

(***************************************************************************)
(* The version extractors.  Each returns <<>> for NULL or <<s>> for the    *)
(* string g_strdup copies: the bytes from the given index up to the first  *)
(* NUL.  A copy that meets no NUL inside the header is cut at rom_len.     *)
(***************************************************************************)
CStr(hdr, at) ==
    LET nul == {i \in at..(hdr.rom_len - 1) : hdr.rom_data[i] = 0}
        end == IF nul = {} THEN hdr.rom_len ELSE MinOf(nul)
    IN  [k \in 1..(end - at) |-> hdr.rom_data[at + k - 1]]

fu_rom_find_version_pci(hdr) ==
    IF (\A k \in 1..5 : hdr.reserved[k] = STR_ARC[k])
       /\ fu_rom_pci_strstr(hdr, STR_BIOS) # -1
    THEN <<CStr(hdr, fu_rom_pci_strstr(hdr, STR_BIOS) + 6)>>
    ELSE <<>>

fu_rom_find_version_nvidia(hdr) ==
    IF HdrEq(hdr, 317, STR_VERSION_SP) THEN <<CStr(hdr, 317 + 8)>>
    ELSE IF fu_rom_pci_strstr(hdr, STR_VERSION_SP) # -1
         THEN <<CStr(hdr, fu_rom_pci_strstr(hdr, STR_VERSION_SP) + 8)>>
    ELSE IF fu_rom_pci_strstr(hdr, STR_VENSION) # -1
         THEN <<CStr(hdr, fu_rom_pci_strstr(hdr, STR_VENSION) + 8)>>
    ELSE IF fu_rom_pci_strstr(hdr, STR_VERSION) # -1
         THEN <<CStr(hdr, fu_rom_pci_strstr(hdr, STR_VERSION) + 7)>>
    ELSE IF HdrEq(hdr, 250, STR_VBIOS_VER) THEN <<CStr(hdr, 250 + 9)>>
    ELSE <<>>

\* g_strsplit (s, " ", -1), then the first piece that contains a "."
FirstDotted(s) ==
    LET cut == {0} \cup {k \in 1..Len(s) : s[k] = 32} \cup {Len(s) + 1}
        nxt(a) == MinOf({b \in cut : b > a})
        dotted == {a \in cut \ {Len(s) + 1} :
                      \E k \in (a + 1)..(nxt(a) - 1) : s[k] = 46}
    IN  IF dotted = {} THEN <<>>
        ELSE <<SubSeq(s, MinOf(dotted) + 1, nxt(MinOf(dotted)) - 1)>>

fu_rom_find_version_intel(hdr) ==
    IF fu_rom_pci_strstr(hdr, STR_BUILD) # -1
       /\ FirstDotted(CStr(hdr, fu_rom_pci_strstr(hdr, STR_BUILD) + 14)) # <<>>
    THEN FirstDotted(CStr(hdr, fu_rom_pci_strstr(hdr, STR_BUILD) + 14))
    ELSE IF fu_rom_pci_strstr(hdr, STR_VBIOS_SP) # -1
         THEN <<CStr(hdr, fu_rom_pci_strstr(hdr, STR_VBIOS_SP) + 6)>>
    ELSE <<>>

fu_rom_find_version_ati(hdr) ==
    IF fu_rom_pci_strstr(hdr, STR_VER0) # -1
    THEN <<CStr(hdr, fu_rom_pci_strstr(hdr, STR_VER0) + 4)>>
    ELSE IF fu_rom_pci_strstr(hdr, STR_VR) # -1
         THEN <<CStr(hdr, fu_rom_pci_strstr(hdr, STR_VR) + 4)>>
    ELSE <<>>

fu_rom_find_version(k, hdr) ==
    IF k = "pci" THEN fu_rom_find_version_pci(hdr)
    ELSE IF k = "nvidia" THEN fu_rom_find_version_nvidia(hdr)
    ELSE IF k = "intel" THEN fu_rom_find_version_intel(hdr)
    ELSE IF k = "ati" THEN fu_rom_find_version_ati(hdr)
    ELSE <<>>

\* g_strstrip: drop leading and trailing g_ascii_isspace bytes
IsSpace(b) == b \in {32, 9, 10, 11, 12, 13}

g_strstrip(s) ==
    LET ink == {k \in 1..Len(s) : ~IsSpace(s[k])}
    IN  IF ink = {} THEN <<>> ELSE SubSeq(s, MinOf(ink), MaxOf(ink))

\* g_strdelimit (s, "\r\n ", '\0'): the C string now ends at the first delimiter
g_strdelimit(s) ==
    LET del == {k \in 1..Len(s) : s[k] \in {13, 10, 32}}
    IN  IF del = {} THEN s ELSE SubSeq(s, 1, MinOf(del) - 1)

(***************************************************************************)
(* The checked inputs.  An input file is all zero bytes except for the     *)
(* patches a parameter record asks for; Image builds it.  The header sits  *)
(* at base = ifr * 256, where ifr is the byte at 0x15 of an "NVGI" prefix  *)
(* (0: no prefix).                                                         *)
(***************************************************************************)
Patch(at, bytes) == [at |-> at, bytes |-> bytes]

Overlay(n, ps) ==
    [i \in 0..(n - 1) |->
        LET hit == {k \in 1..Len(ps) :
                        ps[k].at <= i /\ i < ps[k].at + Len(ps[k].bytes)}
        IN  IF hit = {} THEN 0
            ELSE LET k == CHOOSE x \in hit : \A y \in hit : y <= x
                 IN  ps[k].bytes[i - ps[k].at + 1]]

Opt(cond, patch) == IF cond THEN <<patch>> ELSE <<>>

\* a PCI data structure whose data_len field is dl
PciData(dl) ==
    STR_PCIR \o <<52, 18, 120, 86, 0, 0, dl % 256, dl \div 256, 3, 0, 0, 3,
                  1, 0, 1, 0, 0, 128, 0, 0, 0, 0, 0, 0>>

VersionText(p) ==
    IF p.ver = 0 THEN <<>>
    ELSE IF p.arc THEN STR_BIOS \o <<49, 46, 50, 46, 51, 10>>
    ELSE IF p.vbt /\ p.ver = 1
         THEN STR_BUILD \o <<32, 50, 49, 55, 53, 32, 80, 67, 32, 49, 52, 46, 51, 52, 32, 48, 54>>
    ELSE IF p.vbt THEN STR_VBIOS_SP \o <<50, 49, 55, 53>>
    ELSE IF p.ati /\ p.ver = 1 THEN STR_VER0 \o <<49, 50, 46, 51, 13>>
    ELSE IF p.ati THEN STR_VR \o <<48, 49, 46, 53>>
    ELSE IF p.ver = 1 THEN STR_VERSION_SP \o <<55, 48, 46, 49, 56, 13, 10>>
    ELSE IF p.ver = 2 THEN STR_VENSION \o <<55, 46, 50, 32, 120>>
    ELSE STR_VERSION \o <<56, 46, 48>>

Image(p) ==
    LET n == p.nb * BLOCK + p.odd
        base == p.ifr * 256
        mbase == IF p.res >= 0 THEN p.res ELSE base
        len == IF p.b2 = 0 THEN n - base ELSE p.b2 * BLOCK
        nxt == base + p.b2 * BLOCK
    IN  Overlay(n,
            Opt(p.ifr > 0, Patch(0, STR_NVGI))
         \o Opt(p.ifr > 0, Patch(21, <<p.ifr, 1>>))
         \o Opt(p.vbt, Patch(mbase, STR_VBT))
         \o Opt(p.sig = 1, Patch(base, SIG_PCI \o <<p.b2>>))
         \o Opt(p.sig = 2, Patch(base, SIG_NV \o <<p.b2>>))
         \o Opt(p.sig = 0, Patch(base + 2, <<p.b2>>))
         \o Opt(p.arc, Patch(base + 6, STR_ARC))
         \o Opt(p.res >= 0, Patch(base + 6, STR_ZEROS))
         \o Opt(p.res >= 0, Patch(26, <<p.res % 256, p.res \div 256>>))
         \o Opt(p.k74, Patch(mbase + 4, STR_K74))
         \o Opt(p.ati, Patch(48, STR_ATI))
         \o Opt(p.pcir # "none", Patch(base + 24, <<64, 0>>))
         \o Opt(p.pcir = "ok", Patch(base + 64, PciData(28)))
         \o Opt(p.pcir = "big", Patch(base + 64, PciData(len + 1)))
         \o Opt(p.ver = 3, Patch(base + 317, STR_VERSION_SP \o <<57, 46, 57>>))
         \o Opt(p.ver = 4, Patch(base + 250, STR_VBIOS_VER \o <<53, 46, 53>>))
         \o Opt(p.ver \in 1..3, Patch(base + 128, VersionText(p)))
         \o Opt(p.ppid \in {"one", "two"},
                Patch(base + 256, STR_PPID \o <<49, 50, 51, 0, 88>>))
         \o Opt(p.ppid = "two", Patch(base + 272, STR_PPID \o <<52, 53, 10>>))
         \o Opt(p.ppid = "tail", Patch(base + len - 6, STR_PPID \o <<57, 57>>))
         \o Opt(p.ppid = "end", Patch(base + len - 4, STR_PPID))
         \o Opt(p.next = "junk" /\ p.b2 > 0, Patch(nxt, <<7>>))
         \o Opt(p.next = "hdr" /\ p.b2 > 0, Patch(nxt, SIG_PCI \o <<0>>))
         \o Opt(p.next = "hdr1" /\ p.b2 > 0, Patch(nxt, SIG_NV \o <<1>>))
         \o Opt(p.next = "hdr" /\ p.b2 > 0 /\ p.ppid # "none",
                Patch(nxt + 32, STR_PPID \o <<55, 0>>)))

Default ==
    [nb |-> 2, odd |-> 0, ifr |-> 0, sig |-> 1, b2 |-> 0, next |-> "zeros",
     res |-> -1, k74 |-> FALSE, vbt |-> FALSE, ati |-> FALSE, arc |-> FALSE,
     pcir |-> "none", ver |-> 0, ppid |-> "none", blank |-> FALSE]

\* header chains: file size, optional prefix, signature, declared size and
\* what follows the first header
WalkInputs ==
    {[Default EXCEPT !.nb = nb, !.odd = odd, !.ifr = ifr, !.sig = sig,
                     !.b2 = b2, !.next = next] :
        nb \in 1..MaxBlocks, odd \in {0, 1}, ifr \in {0, 2}, sig \in 0..2,
        b2 \in 0..MaxRomBlocks, next \in {"zeros", "junk", "hdr", "hdr1"}}

\* vendor markers, with and without the "00000000000" header-size override
KindInputs ==
    {[Default EXCEPT !.ifr = ifr, !.res = res, !.k74 = k74, !.vbt = vbt,
                     !.ati = ati, !.ver = 1] :
        ifr \in {0, 2}, res \in {-1, 512, 1024, 1280}, k74 \in BOOLEAN,
        vbt \in BOOLEAN, ati \in BOOLEAN}

\* version strings of every kind
VersionInputs ==
    {[Default EXCEPT !.k74 = (m = "nv"), !.ati = (m = "ati"), !.arc = (m = "pci"),
                     !.vbt = (m = "intel"), !.res = IF m = "intel" THEN 512 ELSE -1,
                     !.pcir = pcir, !.ver = ver] :
        m \in {"nv", "ati", "pci", "intel"}, pcir \in {"none", "ok", "big"},
        ver \in 0..4}

\* serial numbers
SerialInputs ==
    {[Default EXCEPT !.k74 = (m = "nv"), !.ati = (m = "ati"), !.arc = (m = "pci"),
                     !.pcir = pcir, !.ver = 1, !.ppid = ppid, !.b2 = b2,
                     !.next = next, !.blank = blank] :
        m \in {"nv", "ati", "pci"}, pcir \in {"none", "ok", "big"},
        ppid \in {"one", "two", "tail", "end"}, b2 \in {0, 1},
        next \in {"zeros", "hdr"}, blank \in BOOLEAN}

Inputs == WalkInputs \cup KindInputs \cup VersionInputs \cup SerialInputs

\* what an uninitialised or foreign byte may read as
FillBytes == {0, 65}

Init ==
    /\ \E p \in Inputs : file = Image(p) /\ flags = p.blank
    /\ fill \in FillBytes
    /\ pc = "read"
    /\ buffer = <<>>
    /\ sz = 0
    /\ hdr_sz = 0
    /\ jump = 0
    /\ hdrs = <<>>
    /\ kind = "unknown"
    /\ version = <<>>
    /\ vendor = 0
    /\ model = 0
    /\ checksum_wip = <<>>
    /\ sum_i = 0
    /\ guid = FALSE
    /\ error = ""
    /\ attempts = <<>>
    /\ failed_at = -1
    /\ fakes = 0
    /\ hiread = -1
    /\ overrun = 0

(***************************************************************************)
(* fu_rom_load_file, lines 664-707: read the stream, reject a short file,  *)
(* detect the IFR prefix.  The stream hands over the whole file in the     *)
(* first read and 0 bytes in the second (the chunked retry loop of lines   *)
(* 679-702 belongs to the byte source).                                    *)
(***************************************************************************)
Size(f) == Cardinality(DOMAIN f)

\* GUINT16_FROM_BE (val) on a little-endian host, applied to a guint8
GUINT16_FROM_BE(val) == (val % 256) * 256 + (val \div 256)

ReadTooSmall ==
    /\ pc = "read"
    /\ Size(file) < MIN_SZ
    /\ pc' = "fail"
    /\ error' = "Firmware too small"
    /\ UNCHANGED <<file, flags, fill, buffer, sz, hdr_sz, jump, hdrs, kind,
                   version, vendor, model, checksum_wip, sum_i, guid, attempts,
                   failed_at, fakes, hiread, overrun>>

ReadOk ==
    /\ pc = "read"
    /\ Size(file) >= MIN_SZ
    /\ buffer' = file
    /\ sz' = Size(file)
    /\ hdr_sz' = IF \A k \in 1..4 : file[k - 1] = STR_NVGI[k]
                 THEN GUINT16_FROM_BE(file[21]) ELSE 0
    /\ pc' = "walk"
    /\ UNCHANGED <<file, flags, fill, jump, hdrs, kind, version, vendor, model,
                   checksum_wip, sum_i, guid, error, attempts, failed_at, fakes,
                   hiread, overrun>>

(***************************************************************************)
(* fu_rom_load_file, lines 709-756: the header chain walk, one step per    *)
(* iteration of the while loop                                             *)
(***************************************************************************)
\* a decoder that is always handed &buffer[hdr_sz]
OffsetWithoutJump == hdr_sz

\* hdr_sz + jump.  Both are 32-bit unsigned; hdr_sz is below 2^16 and jump
\* stays below sz + 255 * 512 with sz at most 0x400000 (the size of the one
\* block read), so the sum never wraps
Offset == hdr_sz + jump

\* a padding check that looks at every byte up to the end of the file
ScanToEnd(off) == sz - off

\* number of bytes the padding check looks at: for (i = 0; i < hdr_sz + jump; i++)
ScanBound(off) == off

\* the padding check of lines 718-723: buffer[hdr_sz + jump + i] != 0x00
found_data(off) == \E i \in 0..(ScanBound(off) - 1) : Mem(off + i) # 0

\* a synthesized header that is given the length of the whole file
FakeHeaderWholeFile(off) ==
    [ZeroHeader EXCEPT
        !.last_image = 128,
        !.rom_offset = off,
        !.rom_len = sz,
        !.rom_data = [i \in 0..(sz - 1) |-> Mem(off + i)],
        !.image_len = sz]

\* the synthesized header of lines 726-734
FakeHeader(off) ==
    [ZeroHeader EXCEPT
        !.vendor_id = 0,
        !.device_id = 0,
        !.code_type = 0,
        !.last_image = 128,
        !.rom_offset = off,
        !.rom_len = sz - off,
        !.rom_data = [i \in 0..(sz - off - 1) |-> Mem(off + i)],
        !.image_len = sz - off]

\* while (sz > hdr_sz + jump) is false
WalkEnd ==
    /\ pc = "walk"
    /\ ~(sz > Offset)
    /\ pc' = "headers"
    /\ UNCHANGED <<file, flags, fill, buffer, sz, hdr_sz, jump, hdrs, kind,
                   version, vendor, model, checksum_wip, sum_i, guid, error,
                   attempts, failed_at, fakes, hiread, overrun>>

\* an iteration in which fu_rom_pci_get_header returns a header
WalkDecoded ==
    /\ pc = "walk"
    /\ sz > Offset
    /\ fu_rom_pci_get_header(Offset, sz - hdr_sz - jump) # <<>>
    /\ LET hdr == [fu_rom_pci_get_header(Offset, sz - hdr_sz - jump)[1]
                      EXCEPT !.rom_offset = Offset]
           jump_sz == IF hdr.rom_len = 0 THEN hdr.image_len ELSE hdr.rom_len
       IN  /\ hdrs' = Append(hdrs, hdr)
           /\ hiread' = Max(hiread, Offset + Max(hdr.rom_len - 1, 25))
           /\ IF jump_sz = 0
              THEN pc' = "headers" /\ jump' = jump
              ELSE pc' = "walk" /\ jump' = jump + jump_sz
    /\ attempts' = Append(attempts, Offset)
    /\ UNCHANGED <<file, flags, fill, buffer, sz, hdr_sz, kind, version, vendor,
                   model, checksum_wip, sum_i, guid, error, failed_at, fakes,
                   overrun>>

\* an iteration in which fu_rom_pci_get_header returns NULL: padding ends the
\* walk silently, anything else ends it with a synthesized header
WalkFailed ==
    /\ pc = "walk"
    /\ sz > Offset
    /\ fu_rom_pci_get_header(Offset, sz - hdr_sz - jump) = <<>>
    /\ IF found_data(Offset)
       THEN hdrs' = Append(hdrs, FakeHeader(Offset)) /\ fakes' = fakes + 1
       ELSE hdrs' = hdrs /\ fakes' = fakes
    /\ hiread' = Max(hiread, Offset + 15)
    /\ attempts' = Append(attempts, Offset)
    /\ failed_at' = Offset
    /\ pc' = "headers"
    /\ UNCHANGED <<file, flags, fill, buffer, sz, hdr_sz, jump, kind, version,
                   vendor, model, checksum_wip, sum_i, guid, error, overrun>>

(***************************************************************************)
(* fu_rom_load_file, lines 758-806: the empty-list check and the vendor    *)
(* classification                                                          *)
(***************************************************************************)
NoHeaders ==
    /\ pc = "headers"
    /\ Len(hdrs) = 0
    /\ pc' = "fail"
    /\ error' = "Failed to detect firmware header"
    /\ UNCHANGED <<file, flags, fill, buffer, sz, hdr_sz, jump, hdrs, kind,
                   version, vendor, model, checksum_wip, sum_i, guid, attempts,
                   failed_at, fakes, hiread, overrun>>

\* hdr_sz after the "detect intel header" override of lines 781-782
KindHdrSz ==
    IF \A k \in 1..11 : hdrs[1].reserved[k] = STR_ZEROS[k]
    THEN Mem(27) * 256 + Mem(26) ELSE hdr_sz

\* the chain with the Intel test ahead of the Nvidia test
DetectKindIntelFirst(hs) ==
    IF MemEq(hs, STR_VBT) THEN "intel"
    ELSE IF MemEq(hs + 4, STR_K74) THEN "nvidia"
    ELSE IF MemEq(48, STR_ATI) THEN "ati"
    ELSE "pci"

\* the if / else-if chain of lines 791-797, starting from FU_ROM_KIND_PCI
DetectKind(hs) ==
    IF MemEq(hs + 4, STR_K74) THEN "nvidia"
    ELSE IF MemEq(hs, STR_VBT) THEN "intel"
    ELSE IF MemEq(48, STR_ATI) THEN "ati"
    ELSE "pci"

ClassifyOverflow ==
    /\ pc = "headers"
    /\ Len(hdrs) > 0
    /\ KindHdrSz > sz
    /\ vendor' = hdrs[1].vendor_id
    /\ model' = hdrs[1].device_id
    /\ kind' = "pci"
    /\ hdr_sz' = KindHdrSz
    /\ pc' = "fail"
    /\ error' = "firmware corrupt (overflow)"
    /\ UNCHANGED <<file, flags, fill, buffer, sz, jump, hdrs, version,
                   checksum_wip, sum_i, guid, attempts, failed_at, fakes,
                   hiread, overrun>>

Classify ==
    /\ pc = "headers"
    /\ Len(hdrs) > 0
    /\ ~(KindHdrSz > sz)
    /\ vendor' = hdrs[1].vendor_id
    /\ model' = hdrs[1].device_id
    /\ hdr_sz' = KindHdrSz
    /\ kind' = DetectKind(KindHdrSz)
    /\ IF DetectKind(KindHdrSz) = "unknown"
       THEN pc' = "fail" /\ error' = "Failed to detect firmware kind"
       ELSE pc' = "version" /\ error' = error
    /\ UNCHANGED <<file, flags, fill, buffer, sz, jump, hdrs, version,
                   checksum_wip, sum_i, guid, attempts, failed_at, fakes,
                   hiread, overrun>>

(***************************************************************************)
(* fu_rom_load_file, lines 808-838: the version string, the optional       *)
(* blanking, the digest loop (one step per header) and the final check     *)
(***************************************************************************)
FindVersion ==
    /\ pc = "version"
    /\ version' = IF fu_rom_find_version(kind, hdrs[1]) = <<>> THEN <<>>
                  ELSE <<g_strdelimit(g_strstrip(fu_rom_find_version(kind, hdrs[1])[1]))>>
    /\ pc' = "blank"
    /\ UNCHANGED <<file, flags, fill, buffer, sz, hdr_sz, jump, hdrs, kind,
                   vendor, model, checksum_wip, sum_i, guid, error, attempts,
                   failed_at, fakes, hiread, overrun>>

BlankSerials ==
    /\ pc = "blank"
    /\ IF flags
       THEN /\ hdrs' = fu_rom_find_and_blank_serial_numbers(kind, hdrs)
            /\ overrun' = IF kind = "pci" \/ kind = "intel" THEN overrun
                          ELSE overrun + SumOverrun(hdrs, Len(hdrs))
       ELSE hdrs' = hdrs /\ overrun' = overrun
    /\ sum_i' = 0
    /\ pc' = "sum"
    /\ UNCHANGED <<file, flags, fill, buffer, sz, hdr_sz, jump, kind, version,
                   vendor, model, checksum_wip, guid, error, attempts,
                   failed_at, fakes, hiread>>

\* a digest fed from the input block instead of the header's own copy
ChunkFromBuffer(hdr) == [k \in 1..hdr.rom_len |-> Mem(hdr.rom_offset + k - 1)]

\* the bytes one g_checksum_update call of line 820 feeds
Chunk(hdr) == [k \in 1..hdr.rom_len |-> hdr.rom_data[k - 1]]

ChecksumUpdate ==
    /\ pc = "sum"
    /\ sum_i < Len(hdrs)
    /\ checksum_wip' = checksum_wip \o Chunk(hdrs[sum_i + 1])
    /\ sum_i' = sum_i + 1
    /\ UNCHANGED <<file, flags, fill, pc, buffer, sz, hdr_sz, jump, hdrs, kind,
                   version, vendor, model, guid, error, attempts, failed_at,
                   fakes, hiread, overrun>>

Finish ==
    /\ pc = "sum"
    /\ ~(sum_i < Len(hdrs))
    /\ guid' = TRUE
    /\ IF version = <<>>
       THEN pc' = "fail" /\ error' = "Firmware version extractor not known"
       ELSE pc' = "done" /\ error' = error
    /\ UNCHANGED <<file, flags, fill, buffer, sz, hdr_sz, jump, hdrs, kind,
                   version, vendor, model, checksum_wip, sum_i, attempts,
                   failed_at, fakes, hiread, overrun>>

Next ==
    \/ ReadTooSmall
    \/ ReadOk
    \/ WalkEnd
    \/ WalkDecoded
    \/ WalkFailed
    \/ NoHeaders
    \/ ClassifyOverflow
    \/ Classify
    \/ FindVersion
    \/ BlankSerials
    \/ ChecksumUpdate
    \/ Finish

Spec == Init /\ [][Next]_vars

(***************************************************************************)
(* Properties                                                              *)
(***************************************************************************)
\* the walk has ended (the while loop of line 710 was left)
WalkOver == pc \notin {"read", "walk"}

\* C1: in the header chain walk every offset hdr_sz + jump handed to the
\* decoder is below sz, the offsets are strictly increasing (no offset is
\* decoded twice), and the loop is left after finitely many iterations:
\* while the loop runs each iteration so far decoded a header and the next
\* offset lies above every offset tried, so there are at most sz iterations;
\* the loop is left when the offset reaches sz or the decoder fails.
C1_WalkBoundedMonotonic ==
    /\ \A k \in 1..Len(attempts) :
          /\ attempts[k] < sz
          /\ k > 1 => attempts[k - 1] < attempts[k]
    /\ pc = "walk"
          => /\ Len(attempts) = Len(hdrs)
             /\ Len(attempts) <= sz
             /\ attempts # <<>> => Offset > attempts[Len(attempts)]
    /\ pc = "headers"
          => \/ ~(sz > Offset) /\ failed_at = -1
             \/ attempts # <<>> /\ attempts[Len(attempts)] = Offset
                /\ failed_at = Offset

C1_Witness == pc = "headers" /\ Len(attempts) >= 3 /\ Len(hdrs) >= 2

\* the header as fu_rom_pci_get_header or the fallback left it: its bytes are
\* the bytes of the input block from rom_offset on
Orig(hdr) ==
    [hdr EXCEPT !.rom_data = [i \in 0..(hdr.rom_len - 1) |-> Mem(hdr.rom_offset + i)]]

\* the first header of the list was decoded (it is not the synthesized one)
FirstDecoded == Len(hdrs) >= 1 /\ failed_at # hdrs[1].rom_offset

\* the blanking step of line 817 is behind
BlankDone == pc = "sum" \/ guid

\* the call of fu_rom_find_and_blank_serial_numbers did blank headers
BlankRan == BlankDone /\ flags /\ kind \notin {"pci", "intel"}

\* C2: every header of the list copies a byte range that lies inside the
\* valid input, rom_offset + rom_len <= sz, and the decoder reads no byte at
\* an index >= sz.
C2_CopyInsideInput ==
    /\ \A i \in 1..Len(hdrs) : hdrs[i].rom_offset + hdrs[i].rom_len <= sz
    /\ hiread < sz

\* C3: after the blanking ran on an image that is neither PCI nor Intel,
\* every header in which the search found "PPID" has a byte sum of zero
\* modulo 256, whatever its sum was before.
C3_ChecksumZeroAfterBlank ==
    BlankRan =>
        \A i \in 1..Len(hdrs) :
            fu_rom_pci_strstr(Orig(hdrs[i]), STR_PPID) # -1
                => SumBytes(hdrs[i].rom_data, 0, hdrs[i].rom_len - 1) % 256 = 0

C3_Witness ==
    /\ BlankRan
    /\ \E i \in 1..Len(hdrs) :
          /\ fu_rom_pci_strstr(Orig(hdrs[i]), STR_PPID) # -1
          /\ fu_rom_pci_header_get_checksum(Orig(hdrs[i])) # 0
          /\ hdrs[i].rom_data[hdrs[i].rom_len - 1] # 0

\* C4: blanking is idempotent: blanking an already blanked header again
\* leaves every byte of it unchanged.
C4_BlankIdempotent ==
    BlankRan => \A i \in 1..Len(hdrs) : BlankHeader(hdrs[i]) = hdrs[i]

\* C5: when a decoded first header is followed only by zero bytes up to the
\* end of the file, the walk appends no synthesized header.
C5_NoFakeAfterPadding ==
    (/\ WalkOver
     /\ FirstDecoded
     /\ \A i \in (hdrs[1].rom_offset + hdrs[1].rom_len)..(sz - 1) : buffer[i] = 0)
        => fakes = 0

\* C6: when the decoder fails at an offset that holds a non-zero byte, after
\* a decoded first header, the walk appends exactly one synthesized header
\* and stops; the header starts at the failed offset, spans the rest of the
\* file, and has image_len = rom_len, vendor_id = device_id = 0,
\* code_type = 0 and last_image = 0x80.
C6_FakeHeaderSpansRest ==
    (WalkOver /\ FirstDecoded /\ failed_at >= 0 /\ buffer[failed_at] # 0)
        => /\ fakes = 1
           /\ Len(hdrs) = Len(attempts)
           /\ attempts[Len(attempts)] = failed_at
           /\ LET fake == hdrs[Len(hdrs)]
              IN  /\ fake.rom_offset = failed_at
                  /\ fake.rom_len = sz - failed_at
                  /\ pc \in {"headers", "version", "blank"}
                        => /\ DOMAIN fake.rom_data = 0..(sz - failed_at - 1)
                           /\ \A i \in 0..(sz - failed_at - 1) :
                                 fake.rom_data[i] = file[failed_at + i]
                  /\ fake.image_len = fake.rom_len
                  /\ fake.vendor_id = 0
                  /\ fake.device_id = 0
                  /\ fake.code_type = 0
                  /\ fake.last_image = 128

C6_Witness ==
    /\ pc = "headers" /\ FirstDecoded /\ failed_at > 0 /\ buffer[failed_at] # 0
    /\ Len(hdrs) >= 2 /\ sz - failed_at >= BLOCK

\* C7: the load fails with "Failed to detect firmware header" exactly when
\* the walk left the header list empty; a file of at least 1024 bytes that
\* starts neither with "NVGI" nor with 55 AA nor with 56 4E fails that way
\* whatever its other bytes are, with no kind, version or digest input.
NoSignature ==
    /\ Size(file) >= MIN_SZ
    /\ ~(\A k \in 1..4 : file[k - 1] = STR_NVGI[k])
    /\ ~(file[0] = 85 /\ file[1] = 170)
    /\ ~(file[0] = 86 /\ file[1] = 78)

C7_NoHeaderFound ==
    /\ error = "Failed to detect firmware header" => pc = "fail" /\ Len(hdrs) = 0
    /\ (pc \notin {"read", "walk", "headers"} /\ error # "Firmware too small"
        /\ Len(hdrs) = 0)
            => error = "Failed to detect firmware header"
    /\ NoSignature
            => /\ pc \in {"read", "walk", "headers", "fail"}
               /\ pc = "fail" => error = "Failed to detect firmware header"
               /\ hdrs = <<>> /\ kind = "unknown" /\ version = <<>>
               /\ checksum_wip = <<>> /\ ~guid

C7_Witness ==
    /\ NoSignature /\ pc = "fail" /\ \E i \in 2..(sz - 1) : file[i] # 0
    /\ error = "Failed to detect firmware header"

\* every string the source searches for with fu_rom_pci_strstr
Needles ==
    {STR_PPID, STR_BIOS, STR_VERSION_SP, STR_VENSION, STR_VERSION, STR_BUILD,
     STR_VBIOS_SP, STR_VER0, STR_VR}

\* C8: against a header with data_len > rom_len every search returns no
\* match and reads no byte: fu_rom_pci_strstr itself, the searched
\* alternatives of the version extractors (an Nvidia version can then only
\* come from a fixed-offset comparison, the other kinds find none), and the
\* "PPID" search of the blanking, which leaves the header's bytes alone.
C8_NoSearchPastRomLen ==
    \A i \in 1..Len(hdrs) :
        hdrs[i].data_len > hdrs[i].rom_len
            => /\ \A n \in Needles :
                    /\ fu_rom_pci_strstr(hdrs[i], n) = -1
                    /\ StrstrReads(hdrs[i], n) \subseteq 0..(hdrs[i].rom_len - 1)
                    /\ StrstrReads(hdrs[i], n) = {}
               /\ hdrs[i].rom_data = Orig(hdrs[i]).rom_data
               /\ (i = 1 /\ pc \in {"blank", "sum", "done", "fail"})
                    => \/ version = <<>>
                       \/ /\ kind = "nvidia"
                          /\ \/ HdrEq(Orig(hdrs[1]), 317, STR_VERSION_SP)
                             \/ HdrEq(Orig(hdrs[1]), 250, STR_VBIOS_VER)

C8_Witness ==
    /\ BlankRan
    /\ hdrs[1].data_len > hdrs[1].rom_len
    /\ \E at \in 0..(hdrs[1].rom_len - 5) : HdrEq(hdrs[1], at, STR_PPID)
    /\ \E at \in 0..(hdrs[1].rom_len - 6) : HdrEq(hdrs[1], at, STR_VER0)
    /\ kind = "ati"

\* the bytes of the first n headers of hs, one header after the other
RECURSIVE HeaderBytes(_, _)
HeaderBytes(hs, n) ==
    IF n = 0 THEN <<>>
    ELSE HeaderBytes(hs, n - 1)
         \o [k \in 1..hs[n].rom_len |-> hs[n].rom_data[k - 1]]

\* C9: with the blanking flag set, no byte is fed to the digest before the
\* blanking of all headers is over, and the digest is fed the blanked bytes
\* of the headers in list order, each header's rom_len bytes exactly once.
C9_DigestOfBlankedBytes ==
    flags =>
        /\ ~BlankDone => checksum_wip = <<>>
        /\ BlankDone
            => /\ hdrs = fu_rom_find_and_blank_serial_numbers(
                            kind, [i \in 1..Len(hdrs) |-> Orig(hdrs[i])])
               /\ checksum_wip = HeaderBytes(hdrs, sum_i)
               /\ guid => sum_i = Len(hdrs)

C9_Witness ==
    /\ flags /\ pc = "done" /\ Len(hdrs) >= 2
    /\ \A i \in 1..2 : hdrs[i].rom_data # Orig(hdrs[i]).rom_data

\* C10: after a walk that found a header, and with hdr_sz <= sz, the kind
\* is Nvidia if bytes [hdr_sz+4, hdr_sz+7) are "K74"; else Intel if bytes
\* [hdr_sz, hdr_sz+4) are "$VBT"; else Ati if bytes [0x30, 0x3A) are
\* " 761295520"; else PCI.
HasK74 == Mem(hdr_sz + 4) = 75 /\ Mem(hdr_sz + 5) = 55 /\ Mem(hdr_sz + 6) = 52
HasVBT ==
    Mem(hdr_sz) = 36 /\ Mem(hdr_sz + 1) = 86 /\ Mem(hdr_sz + 2) = 66
    /\ Mem(hdr_sz + 3) = 84
HasAti == \A k \in 0..9 : Mem(48 + k) = STR_ATI[k + 1]

C10_KindPriority ==
    (pc \in {"version", "blank", "sum", "done"} \/ guid)
        => /\ hdr_sz <= sz
           /\ Len(hdrs) >= 1
           /\ kind = (IF HasK74 THEN "nvidia"
                      ELSE IF HasVBT THEN "intel"
                      ELSE IF HasAti THEN "ati"
                      ELSE "pci")

C10_Witness == pc = "done" /\ kind = "ati" /\ HasAti /\ ~HasK74 /\ ~HasVBT

\* the indices at which needle lies entirely inside rom_data[data_len .. rom_len)
Occurrences(hdr, needle) ==
    {at \in hdr.data_len..(hdr.rom_len - Len(needle)) : HdrEq(hdr, at, needle)}

\* C11: for every header with data_len <= rom_len and every (non-empty)
\* string the source searches for, fu_rom_pci_strstr returns the lowest index
\* at which the string lies entirely inside rom_data[data_len .. rom_len),
\* also when that occurrence ends exactly at rom_len, and returns no match
\* only when there is no such occurrence.
C11_StrstrLowestMatch ==
    \A i \in 1..Len(hdrs) : \A n \in Needles :
        Orig(hdrs[i]).data_len <= Orig(hdrs[i]).rom_len
            => fu_rom_pci_strstr(Orig(hdrs[i]), n)
                 = (IF Occurrences(Orig(hdrs[i]), n) = {} THEN -1
                    ELSE MinOf(Occurrences(Orig(hdrs[i]), n)))

\* the index of the first boundary byte of rom_data at or after m, or rom_len
\* when the header holds none
BoundaryAfter(hdr, m) ==
    LET stop == {j \in m..(hdr.rom_len - 1) : IsBoundary(hdr.rom_data[j])}
    IN  IF stop = {} THEN hdr.rom_len ELSE MinOf(stop)

\* the bytes of a blanked header outside the blanked run and the checksum
\* byte are the bytes it had before
BlankFrame(hdr) ==
    LET m == fu_rom_pci_strstr(Orig(hdr), STR_PPID)
    IN  m # -1
            => \A j \in 0..(hdr.rom_len - 1) :
                  ((j < m \/ j >= BoundaryAfter(Orig(hdr), m))
                   /\ j # hdr.rom_len - 1)
                      => hdr.rom_data[j] = Orig(hdr).rom_data[j]

\* C12: after the blanking ran, a header in which "PPID" was found at index
\* m differs from what it was only in the bytes from m up to the first
\* boundary byte (0xFF, 0x00, CR, LF) at or after m and in its checksum byte
\* rom_data[rom_len - 1], and the blanking wrote no byte at an index >=
\* rom_len, also when no boundary byte lies between m and the header's end.
C12_BlankFrame ==
    BlankRan => /\ \A i \in 1..Len(hdrs) : BlankFrame(hdrs[i])
                /\ overrun = 0

\* the buffer begins with "NVGI"
HasNVGI == \A k \in 1..4 : Mem(k - 1) = STR_NVGI[k]

\* C13: during the chain walk (and until the kind detection may reset it)
\* hdr_sz is the big-endian 16-bit value at byte 0x15 of a buffer that begins
\* with "NVGI", buffer[0x15] * 256 + buffer[0x16], and 0 for every other
\* buffer.
C13_HdrSzBigEndian16 ==
    pc \in {"walk", "headers"}
        => hdr_sz = (IF HasNVGI THEN Mem(21) * 256 + Mem(22) ELSE 0)

====
